---- MODULE Spec2Model ----
(***************************************************************************)
(* useBigIntInput: the linear history stack (useStateWithHistory) and the  *)
(* masked bigint input (useBigIntInput), as state machines.                *)
(*                                                                         *)
(* Text is a sequence of one-character strings.  Array and string offsets  *)
(* are 0-based as in the source; Nth and the slice operators translate     *)
(* them to TLA+ sequences.                                                  *)
(***************************************************************************)
EXTENDS Integers, Sequences, FiniteSets, TLC

\* ------------------------------------------------------------------ bounds
MaxVal == 3      \* values of T are 0..MaxVal and undefined
MaxHist == 4     \* history.current holds at most MaxHist entries
MaxScale == 1    \* decimals is 0..MaxScale
MaxText == 5     \* characters in the text field after a keystroke
MaxRenders == 3  \* reconciling render passes in a row (React gives up at 25)
MaxRoundTrip == 30  \* the round trip is run on 0..MaxRoundTrip and some more
MaxRaw == 3      \* the raw texts are all texts of up to MaxRaw characters and some more
MaxDigits == 2   \* the text functions are applied with decimals 0..MaxDigits
MaxDemoHist == 3  \* entries of the history of the demo host
MaxDemoText == 3  \* characters in the text field of the demo host after a keystroke

\* JavaScript's undefined, as a value of T and as the result of reading an
\* array past its end.
Undefined == -1
\* "setState was not called" / "no argument".
NoCall == -2

T == (0 .. MaxVal) \cup {Undefined}

VARIABLES
    \* useStateWithHistory
    hook,       \* which copy of useStateWithHistory: "lib" or "demo"
    state,      \* useState value the hook returns (after the re-render)
    history,    \* history.current
    index,      \* index.current (0-based)
    call,       \* the last call: its name, resolved argument, the state before it
    ops,        \* the calls made since the hook was created, while they
                \* are no more than the scenario of section 8 has
    \* useBigIntInput
    formattingOptions,  \* the module constant resolved from the locale
    valueProp,  \* the value prop (a bigint >= 0, or Undefined)
    decimals,   \* the decimals prop
    input,      \* useState: [internalValue, cursor]
    notified,   \* the onChange(value, rawValue, changedFromProps) call of the last step
    pc,         \* "render": the component function is about to run; "idle"
    renders,    \* render passes that reconciled since the last event
    event,      \* the kind of the last step and of the step before it
    \* the conversions applied one after the other to one value
    rt,
    \* the text functions applied to one raw text
    tx

historyVars == <<hook, state, history, index, call, ops>>
inputVars == <<formattingOptions, valueProp, decimals, input, notified, pc, renders, event>>

vars == <<hook, state, history, index, call, ops,
          formattingOptions, valueProp, decimals, input, notified, pc, renders, event, rt, tx>>

Range(s) == {s[k] : k \in DOMAIN s}

\* No text function has been applied.
NoText ==
    [stage |-> "none", rawInputValue |-> <<>>, decimals |-> 0,
     numericValue |-> <<>>, again |-> <<>>, maskedValue |-> <<>>, unmasked |-> <<>>,
     selectionStart |-> 0, inputType |-> "none", cursor |-> 0,
     handled |-> [numericValue |-> <<>>, maskedValue |-> <<>>, cursor |-> 0]]

\* ------------------------------------------------- useStateWithHistory
\* history.current[i]: reading outside the array yields undefined.
Nth(h, i) == IF i + 1 \in DOMAIN h THEN h[i + 1] ELSE Undefined

\* The updater functions a host passes to set: 0 is s => s, 1 is s => s + 1
\* (wrapping inside T).
Updaters == {0, 1}
ApplyUpdater(u, s) ==
    IF u = 0 THEN s
    ELSE IF s = Undefined THEN 0 ELSE (s + 1) % (MaxVal + 1)

\* The arguments of set: a value of T, or an updater.
SetArgs == [fn : {FALSE}, v : T] \cup [fn : {TRUE}, v : Updaters]

\* typeof _newState === 'function' ? _newState(state) : _newState
ResolveNewState(_newState, s) ==
    IF _newState.fn THEN ApplyUpdater(_newState.v, s) ELSE _newState.v

KeepWholeHistory(h, i, newState) == Append(h, newState)
SliceOneShort(h, i, newState) == Append(SubSeq(h, 1, i), newState)
\* history.current = history.current.slice(0, index.current + 1)
\* history.current.push(newState)
SliceAndPush(h, i, newState) == Append(SubSeq(h, 1, i + 1), newState)

\* "History linearity" of section 8: set(1), set(2), undo(), set(3).
ScenarioOps == <<<<"set", 1>>, <<"set", 2>>, <<"undo", NoCall>>, <<"set", 3>>>>

\* The record of a call: what was called, the resolved argument, the hook's
\* state before the call and the argument of setState (NoCall when the call
\* returned before it).
Called(op, newState, setStateArg) ==
    /\ call' = [op |-> op, newState |-> newState, setState |-> setStateArg,
                state |-> state, history |-> history, index |-> index]
    /\ ops' = IF Len(ops) < Len(ScenarioOps) THEN Append(ops, <<op, newState>>)
              ELSE <<<<"more", NoCall>>>>

\* set of src/useBigIntInput/useStateWithHistory.ts (and its copies in the
\* playground): returns early on an equal value.  state is the value of the
\* render the caller holds set from; the hosts call set once per event, so
\* it is the current value.
set(_newState) ==
    LET newState == ResolveNewState(_newState, state) IN
    /\ hook = "lib"
    /\ IF newState = state
         THEN /\ UNCHANGED <<history, index, state>>
              /\ Called("set", newState, NoCall)
         ELSE /\ index + 2 <= MaxHist
              /\ history' = SliceAndPush(history, index, newState)
              /\ index' = Len(history') - 1
              /\ state' = newState
              /\ Called("set", newState, newState)
    /\ UNCHANGED <<hook, inputVars, rt, tx>>

\* set of src/src/useStateWithHistory.ts: takes a value, has no early return.
setDemo(newState) ==
    /\ hook = "demo"
    /\ index + 2 <= MaxHist
    /\ history' = SliceAndPush(history, index, newState)
    /\ index' = Len(history') - 1
    /\ state' = newState
    /\ Called("set", newState, newState)
    /\ UNCHANGED <<hook, inputVars, rt, tx>>

UndoNoGuard(i) == FALSE
\* if (index.current === 0) return
UndoReturns(i) == i = 0

UndoValueAtIndex(h, i) == Nth(h, i)
\* const value = history.current[index.current - 1]
UndoValue(h, i) == Nth(h, i - 1)

undoPopping ==
    /\ IF UndoReturns(index)
         THEN /\ UNCHANGED <<history, index, state>>
              /\ Called("undo", NoCall, NoCall)
         ELSE /\ state' = UndoValue(history, index)
              /\ index' = index - 1
              /\ history' = SubSeq(history, 1, index)
              /\ Called("undo", NoCall, state')
    /\ UNCHANGED <<hook, inputVars, rt, tx>>
undo ==
    /\ IF UndoReturns(index)
         THEN /\ UNCHANGED <<history, index, state>>
              /\ Called("undo", NoCall, NoCall)
         ELSE /\ state' = UndoValue(history, index)
              /\ index' = index - 1
              /\ UNCHANGED history
              /\ Called("undo", NoCall, state')
    /\ UNCHANGED <<hook, inputVars, rt, tx>>

RedoValueAtIndex(h, i) == Nth(h, i)
\* const value = history.current[index.current + 1]
RedoValue(h, i) == Nth(h, i + 1)
\* if (value === undefined) return
RedoReturns(value) == value = Undefined

redo ==
    LET value == RedoValue(history, index) IN
    /\ IF RedoReturns(value)
         THEN /\ UNCHANGED <<history, index, state>>
              /\ Called("redo", NoCall, NoCall)
         ELSE /\ state' = value
              /\ index' = index + 1
              /\ UNCHANGED history
              /\ Called("redo", NoCall, value)
    /\ UNCHANGED <<hook, inputVars, rt, tx>>

\* ------------------------------------------------------- strings (JS)
DigitChars == <<"0", "1", "2", "3", "4", "5", "6", "7", "8", "9">>
Digits == Range(DigitChars)
DigitOf(c) == CHOOSE d \in 0 .. 9 : DigitChars[d + 1] = c

\* The two FormattingOptions.
PeriodOptions == [decimalSeparator |-> ".", thousandsSeparator |-> ","]
CommaOptions == [decimalSeparator |-> ",", thousandsSeparator |-> "."]

Min(a, b) == IF a < b THEN a ELSE b
Max(a, b) == IF a > b THEN a ELSE b

\* String.prototype.slice(start, end): negative offsets count from the end.
SliceOffset(k, n) == IF k < 0 THEN Max(n + k, 0) ELSE Min(k, n)
Slice(s, start, end) ==
    LET from == SliceOffset(start, Len(s))
        to == SliceOffset(end, Len(s))
    IN  IF from >= to THEN <<>> ELSE SubSeq(s, from + 1, to)
SliceFrom(s, start) == Slice(s, start, Len(s))

\* s[i] of a string: undefined outside it (written "" here: no character).
CharAt(s, i) == IF i + 1 \in DOMAIN s THEN s[i + 1] ELSE ""

\* 1-based position of the first c in s, 0 when there is none.
IndexOf(s, c) ==
    IF \E k \in DOMAIN s : s[k] = c
    THEN CHOOSE k \in DOMAIN s : s[k] = c /\ \A j \in 1 .. k - 1 : s[j] # c
    ELSE 0

\* String.prototype.split(separator) for a one-character separator.
RECURSIVE Split(_, _)
Split(s, sep) ==
    LET k == IndexOf(s, sep)
    IN  IF k = 0 THEN <<s>>
        ELSE <<SubSeq(s, 1, k - 1)>> \o Split(SubSeq(s, k + 1, Len(s)), sep)

\* Array.prototype.join('')
RECURSIVE Join(_)
Join(parts) == IF parts = <<>> THEN <<>> ELSE Head(parts) \o Join(Tail(parts))

\* String.prototype.replaceAll(c, '')
RemoveAll(s, c) ==
    LET Keep(x) == x # c IN SelectSeq(s, Keep)

\* String.prototype.replace(c, d) with a string pattern: the first c only.
ReplaceFirst(s, c, d) ==
    LET k == IndexOf(s, c)
    IN  IF k = 0 THEN s ELSE [s EXCEPT ![k] = d]

\* bigint.toString() of a value >= 0.
RECURSIVE BigIntToString(_)
BigIntToString(n) ==
    IF n < 10 THEN <<DigitChars[n + 1]>>
    ELSE BigIntToString(n \div 10) \o <<DigitChars[(n % 10) + 1]>>

\* BigInt(digits): the empty string is 0n.
RECURSIVE ToBigInt(_)
ToBigInt(s) ==
    IF s = <<>> THEN 0
    ELSE 10 * ToBigInt(SubSeq(s, 1, Len(s) - 1)) + DigitOf(s[Len(s)])

RECURSIVE Zeros(_)
Zeros(n) == IF n <= 0 THEN <<>> ELSE <<"0">> \o Zeros(n - 1)
PadStart(s, n) == Zeros(n - Len(s)) \o s
PadEnd(s, n) == s \o Zeros(n - Len(s))

\* s.replace(/(0+)$/, '')
RECURSIVE TrimTrailingZeros(_)
TrimTrailingZeros(s) ==
    IF s # <<>> /\ s[Len(s)] = "0"
    THEN TrimTrailingZeros(SubSeq(s, 1, Len(s) - 1))
    ELSE s

\* ----------------------------------------------------- viem/utils
\* The result of a parseUnits that throws.
ParseError == -3

\* formatUnits(value, decimals) of viem, for value >= 0: the decimal point is
\* always ".".
formatUnits(v, d) ==
    LET display == PadStart(BigIntToString(v), d)
        integer == Slice(display, 0, Len(display) - d)
        fraction == TrimTrailingZeros(SliceFrom(display, Len(display) - d))
    IN  (IF integer = <<>> THEN <<"0">> ELSE integer)
        \o (IF fraction = <<>> THEN <<>> ELSE <<".">> \o fraction)

\* /^(-?)([0-9]*)\.?([0-9]*)$/ on a string without a sign.
IsDecimalNumber(s) ==
    /\ \A k \in DOMAIN s : s[k] \in Digits \cup {"."}
    /\ Cardinality({k \in DOMAIN s : s[k] = "."}) <= 1

\* Math.round(Number(`${unit}.${right}`)) for a digit unit and digits right
\* (right has no trailing zeros): half rounds up.
RoundUnit(unit, right) ==
    DigitOf(unit) + (IF right # <<>> /\ DigitOf(right[1]) >= 5 THEN 1 ELSE 0)

\* parseUnits(value, decimals) of viem: the integer value * 10^decimals, the
\* fraction rounded when it is longer than decimals.  It throws on a string
\* that is no decimal number.
viemParseUnits(s, d) ==
    IF ~IsDecimalNumber(s) THEN ParseError
    ELSE
    LET parts == Split(s, ".")
        integer == ToBigInt(parts[1])
        fraction == TrimTrailingZeros(IF Len(parts) >= 2 THEN parts[2] ELSE <<"0">>)
    IN  IF d = 0
        THEN \* Math.round(Number(`.${fraction}`)) === 1
             IF fraction # <<>> /\ DigitOf(fraction[1]) >= 5
             THEN integer + 1 ELSE integer
        ELSE IF Len(fraction) > d
        THEN LET left == Slice(fraction, 0, d - 1)
                 unit == fraction[d]
                 right == SliceFrom(fraction, d)
                 rounded == RoundUnit(unit, right)
                 carried == IF rounded > 9
                            THEN PadStart(BigIntToString(ToBigInt(left) + 1) \o <<"0">>,
                                          Len(left) + 1)
                            ELSE left \o BigIntToString(rounded)
                 over == Len(carried) > d
                 kept == Slice(IF over THEN Tail(carried) ELSE carried, 0, d)
             IN  ToBigInt(BigIntToString(IF over THEN integer + 1 ELSE integer) \o kept)
        ELSE ToBigInt(BigIntToString(integer) \o PadEnd(fraction, d))

\* ------------------------------------------------- Decimal Text Engine
\* /\B(?=(\d{3})+(?!\d))/g at offset p of whole (between whole[p-1] and
\* whole[p], 0-based): no word boundary there, and the digits that start at
\* p run for a positive multiple of three.  \w is [A-Za-z0-9_]; of the
\* characters modelled only the digits and the letter "a" are word characters.
IsWordChar(c) == c \in Digits \cup {"a"}
RECURSIVE DigitRun(_, _)
DigitRun(s, p) ==
    IF CharAt(s, p) \in Digits THEN 1 + DigitRun(s, p + 1) ELSE 0
GroupBoundaryFromLeft(whole, p) ==
    /\ p > 0
    /\ p < Len(whole)
    /\ IsWordChar(CharAt(whole, p - 1)) <=> IsWordChar(CharAt(whole, p))
    /\ DigitRun(whole, p) > 0
    /\ p % 3 = 0
GroupBoundary(whole, p) ==
    /\ p > 0
    /\ p < Len(whole)
    /\ IsWordChar(CharAt(whole, p - 1)) <=> IsWordChar(CharAt(whole, p))
    /\ DigitRun(whole, p) > 0
    /\ DigitRun(whole, p) % 3 = 0

\* whole.replace(/\B(?=(\d{3})+(?!\d))/g, thousandsSeparator)
RECURSIVE InsertSeparators(_, _, _)
InsertSeparators(whole, p, sep) ==
    IF p >= Len(whole) THEN <<>>
    ELSE (IF GroupBoundary(whole, p) THEN <<sep>> ELSE <<>>)
         \o <<CharAt(whole, p)>> \o InsertSeparators(whole, p + 1, sep)

mask(v, options) ==
    LET parts == Split(v, options.decimalSeparator)
        whole == parts[1]
        formattedWhole == InsertSeparators(whole, 0, options.thousandsSeparator)
    IN  IF Len(parts) >= 2
        THEN formattedWhole \o <<options.decimalSeparator>> \o parts[2]
        ELSE formattedWhole

unmaskFirst(v, options) ==
    LET k == IndexOf(v, options.thousandsSeparator)
    IN  IF k = 0 THEN v ELSE SubSeq(v, 1, k - 1) \o SubSeq(v, k + 1, Len(v))
\* value.replaceAll(thousandsSeparator, '')
unmask(v, options) == RemoveAll(v, options.thousandsSeparator)

parseUnitsAsTyped(v, d) == viemParseUnits(v, d)
\* viemParseUnits(value.replace(',', '.'), decimals)
parseUnits(v, d) == viemParseUnits(ReplaceFirst(v, ",", "."), d)

EndsWith(s, c) == s # <<>> /\ s[Len(s)] = c

toNumericStringRounding(v, d, options) ==
    IF v = <<options.decimalSeparator>> THEN <<>>
    ELSE
    LET value1 == IF EndsWith(v, options.thousandsSeparator)
                  THEN Slice(v, 0, -1) \o <<options.decimalSeparator>>
                  ELSE v
        Kept(c) == c \in Digits \/ c = options.decimalSeparator
        parts == Split(SelectSeq(value1, Kept), options.decimalSeparator)
        whole == Head(parts)
        fraction == Join(Tail(parts))
        kept == Slice(fraction, 0, d)
        up == d >= 1 /\ Len(fraction) > d /\ DigitOf(fraction[d + 1]) >= 5
                     /\ DigitOf(fraction[d]) < 9
    IN  IF Len(parts) = 1 THEN whole
        ELSE whole \o <<options.decimalSeparator>>
             \o (IF up THEN [kept EXCEPT ![d] = DigitChars[DigitOf(kept[d]) + 2]]
                 ELSE kept)
toNumericString(v, d, options) ==
    IF v = <<options.decimalSeparator>> THEN <<>>
    ELSE
    LET value1 == IF EndsWith(v, options.thousandsSeparator)
                  THEN Slice(v, 0, -1) \o <<options.decimalSeparator>>
                  ELSE v
        Kept(c) == c \in Digits \/ c = options.decimalSeparator
        parts == Split(SelectSeq(value1, Kept), options.decimalSeparator)
        whole == Head(parts)
        fraction == Tail(parts)
    IN  IF Len(fraction) = 0 THEN whole
        ELSE whole \o <<options.decimalSeparator>> \o Slice(Join(fraction), 0, d)

removeCharAtIndex(v, i) == Slice(v, 0, i) \o SliceFrom(v, i + 1)
\* value.slice(0, index - 1) + value.slice(index)
removeCharAt(v, i) == Slice(v, 0, i - 1) \o SliceFrom(v, i)

adjustCursorPositionUnclamped(inputValue, maskedInput, cursor) ==
    LET longer == IF Len(inputValue) < Len(maskedInput) THEN cursor + 1 ELSE cursor
    IN  IF Len(inputValue) > Len(maskedInput) THEN longer - 1 ELSE longer
adjustCursorPosition(inputValue, maskedInput, cursor) ==
    LET longer == IF Len(inputValue) < Len(maskedInput) THEN cursor + 1 ELSE cursor
        cursorPosition == IF Len(inputValue) > Len(maskedInput) THEN longer - 1 ELSE longer
    IN  IF cursorPosition > 0 THEN cursorPosition ELSE 0

\* maskedValue.slice(0, cursor).split(thousandsSeparator).length - 1
SeparatorsBefore(maskedValue, cursor, sep) ==
    Len(Split(Slice(maskedValue, 0, cursor), sep)) - 1

\* handleMaskedInput(e, decimals): e.target.value, e.target.selectionStart
\* and e.nativeEvent.inputType are rawInputValue, selectionStart, inputType.
handleMaskedInput(rawInputValue, selectionStart, inputType, d, options) ==
    LET numericValue == toNumericString(rawInputValue, d, options)
        maskedValue == mask(numericValue, options)
        cursor == selectionStart
    IN  IF /\ inputType = "deleteContentBackward"
           /\ CharAt(maskedValue, cursor) = options.thousandsSeparator
        THEN LET thousandSeparatorsBeforeCursor ==
                     SeparatorsBefore(maskedValue, cursor, options.thousandsSeparator)
                 newNumericValue ==
                     removeCharAt(numericValue, cursor - thousandSeparatorsBeforeCursor)
                 newMaskedInput == mask(newNumericValue, options)
                 newCursor == IF Len(maskedValue) - Len(newMaskedInput) > 1
                              THEN cursor - 2 ELSE cursor - 1
             IN  [numericValue |-> newNumericValue,
                  maskedValue |-> newMaskedInput,
                  cursor |-> IF newCursor > 0 THEN newCursor ELSE 0]
        ELSE [numericValue |-> numericValue,
              maskedValue |-> maskedValue,
              cursor |-> adjustCursorPosition(rawInputValue, maskedValue, cursor)]

\* useState(initialState), useRef([initialState]), useRef(0)
InitHistory ==
    /\ hook \in {"lib", "demo"}
    /\ \E initialState \in T :
          /\ state = initialState
          /\ history = <<initialState>>
    /\ index = 0
    /\ call = [op |-> "none", newState |-> NoCall, setState |-> NoCall,
               state |-> state, history |-> history, index |-> index]
    /\ ops = <<>>
    \* (the input field and the round trip are not run)
    /\ formattingOptions = [decimalSeparator |-> ".", thousandsSeparator |-> ","]
    /\ valueProp = Undefined
    /\ decimals = 0
    /\ input = [internalValue |-> <<>>, cursor |-> 0]
    /\ notified = [fired |-> FALSE, value |-> NoCall, rawValue |-> <<>>,
                   changedFromProps |-> FALSE]
    /\ pc = "idle"
    /\ renders = 0
    /\ event = [kind |-> "none", after |-> "none"]
    /\ rt = [stage |-> "none", value |-> 0, scale |-> 0, text |-> <<>>, parsed |-> NoCall]
    /\ tx = NoText

NextHistory ==
    \/ \E _newState \in SetArgs : set(_newState)
    \/ \E newState \in T : setDemo(newState)
    \/ undo
    \/ redo

\* ---------------------------------------------------- useBigIntInput
\* onValueChangeRef.current(value, rawValue, changedFromProps), or no call.
NoNotification ==
    [fired |-> FALSE, value |-> NoCall, rawValue |-> <<>>, changedFromProps |-> FALSE]
Notification(v, rawValue, changedFromProps) ==
    [fired |-> TRUE, value |-> v, rawValue |-> rawValue,
     changedFromProps |-> changedFromProps]

\* The values a host supplies, the characters a user types.
HostValues == {0, 11, 1000}
TypedChars == {"0", "1", ".", ","}

InitialInputZero(v, d, options) ==
    LET internalValue == IF v # Undefined /\ v # 0
                         THEN mask(formatUnits(v, d), options)
                         ELSE <<"0">>
    IN  [internalValue |-> internalValue, cursor |-> Len(internalValue)]
\* useState(() => { const internalValue = value ? mask(formatUnits(value,
\* decimals)) : ''; return { internalValue, cursor: internalValue.length } })
InitialInput(v, d, options) ==
    LET internalValue == IF v # Undefined /\ v # 0
                         THEN mask(formatUnits(v, d), options)
                         ELSE <<>>
    IN  [internalValue |-> internalValue, cursor |-> Len(internalValue)]

NeedsReconcileMasked(v, internalValue, d, options) ==
    v # Undefined /\ v # parseUnits(internalValue, d)
\* value !== undefined && value !== parseUnits(unmask(input.internalValue), decimals)
NeedsReconcile(v, internalValue, d, options) ==
    v # Undefined /\ v # parseUnits(unmask(internalValue, options), d)

NewInternalValueMasked(v, d, options) == mask(formatUnits(v, d), options)
\* const maskedValue = mask(formatUnits(value, decimals))
\* const newInternalValue = value === 0n ? '' : maskedValue
NewInternalValue(v, d, options) ==
    LET maskedValue == mask(formatUnits(v, d), options)
    IN  IF v = 0 THEN <<>> ELSE maskedValue

\* What a step leaves in event: its kind, and the kind of the step before.
Did(kind) == event' = [kind |-> kind, after |-> event.kind]

\* One run of the component function (lines 125-172): the reconciliation of
\* lines 144-149.  setInput during a render makes React render again.
render ==
    /\ pc = "render"
    /\ IF NeedsReconcile(valueProp, input.internalValue, decimals, formattingOptions)
         THEN LET newInternalValue ==
                      NewInternalValue(valueProp, decimals, formattingOptions)
              IN  /\ renders < MaxRenders
                  /\ input' = [internalValue |-> newInternalValue,
                               cursor |-> input.cursor]
                  /\ notified' = Notification(valueProp, newInternalValue, TRUE)
                  /\ renders' = renders + 1
                  /\ pc' = "render"
                  /\ Did("reconcile")
         ELSE /\ UNCHANGED <<input, renders>>
              /\ notified' = NoNotification
              /\ pc' = "idle"
              /\ Did("render")
    /\ UNCHANGED <<formattingOptions, valueProp, decimals, historyVars, rt, tx>>

\* The change events the text field delivers for the displayed text v: a
\* character typed at caret p, Backspace at caret p, Delete at caret p.
InsertText(v, p, c) ==
    [rawInputValue |-> Slice(v, 0, p) \o <<c>> \o SliceFrom(v, p),
     selectionStart |-> p + 1, inputType |-> "insertText"]
DeleteContentBackward(v, p) ==
    [rawInputValue |-> Slice(v, 0, p - 1) \o SliceFrom(v, p),
     selectionStart |-> p - 1, inputType |-> "deleteContentBackward"]
DeleteContentForward(v, p) ==
    [rawInputValue |-> Slice(v, 0, p) \o SliceFrom(v, p + 1),
     selectionStart |-> p, inputType |-> "deleteContentForward"]
ChangeEvents(v) ==
    {InsertText(v, p, c) : p \in 0 .. Len(v), c \in TypedChars}
    \cup {DeleteContentBackward(v, p) : p \in 1 .. Len(v)}
    \cup {DeleteContentForward(v, p) : p \in 0 .. Len(v) - 1}

onChangeParsingMasked(e, echo) ==
    LET handled == handleMaskedInput(e.rawInputValue, e.selectionStart, e.inputType,
                                     decimals, formattingOptions)
        parsed == parseUnits(handled.maskedValue, decimals)
    IN  /\ pc = "idle"
        /\ Len(e.rawInputValue) <= MaxText
        /\ input' = [internalValue |-> handled.maskedValue, cursor |-> handled.cursor]
        /\ notified' = Notification(parsed, handled.maskedValue, FALSE)
        /\ valueProp' = IF echo THEN parsed ELSE valueProp
        /\ pc' = "render"
        /\ renders' = 0
        /\ Did("edit")
        /\ UNCHANGED <<formattingOptions, decimals, historyVars, rt, tx>>
\* onChange (lines 151-159) on a change event e, and the host's answer to
\* the notification in the same event: it passes the notified value back as
\* the value prop (echo), or leaves the prop as it is.
onChange(e, echo) ==
    LET handled == handleMaskedInput(e.rawInputValue, e.selectionStart, e.inputType,
                                     decimals, formattingOptions)
        parsed == parseUnits(handled.numericValue, decimals)
    IN  /\ pc = "idle"
        /\ Len(e.rawInputValue) <= MaxText
        /\ input' = [internalValue |-> handled.maskedValue, cursor |-> handled.cursor]
        /\ notified' = Notification(parsed, handled.maskedValue, FALSE)
        /\ valueProp' = IF echo THEN parsed ELSE valueProp
        /\ pc' = "render"
        /\ renders' = 0
        /\ Did("edit")
        /\ UNCHANGED <<formattingOptions, decimals, historyVars, rt, tx>>

\* The host renders the field with another value prop.
SupplyValue(v) ==
    /\ pc = "idle"
    /\ valueProp' = v
    /\ notified' = NoNotification
    /\ pc' = "render"
    /\ renders' = 0
    /\ Did("value")
    /\ UNCHANGED <<formattingOptions, decimals, input, historyVars, rt, tx>>

\* The host renders the field with another decimals prop.
SupplyDecimals(d) ==
    /\ pc = "idle"
    /\ d # decimals
    /\ decimals' = d
    /\ notified' = NoNotification
    /\ pc' = "render"
    /\ renders' = 0
    /\ Did("decimals")
    /\ UNCHANGED <<formattingOptions, valueProp, input, historyVars, rt, tx>>

\* The first render of useBigIntInput({ ref, value, decimals, onChange }).
InitInput ==
    /\ formattingOptions \in {PeriodOptions, CommaOptions}
    /\ valueProp \in HostValues \cup {Undefined}
    /\ decimals \in 0 .. MaxScale
    /\ input = InitialInput(valueProp, decimals, formattingOptions)
    /\ notified = NoNotification
    /\ pc = "render"
    /\ renders = 0
    /\ event = [kind |-> "mount", after |-> "none"]
    \* (the history stack and the round trip are not run)
    /\ hook = "lib"
    /\ state = 0
    /\ history = <<0>>
    /\ index = 0
    /\ call = [op |-> "none", newState |-> NoCall, setState |-> NoCall,
               state |-> 0, history |-> <<0>>, index |-> 0]
    /\ ops = <<>>
    /\ rt = [stage |-> "none", value |-> 0, scale |-> 0, text |-> <<>>, parsed |-> NoCall]
    /\ tx = NoText

NextInput ==
    \/ render
    \/ \E e \in ChangeEvents(input.internalValue), echo \in BOOLEAN : onChange(e, echo)
    \/ \E v \in HostValues \cup {Undefined} : SupplyValue(v)
    \/ \E d \in 0 .. MaxScale : SupplyDecimals(d)

\* ------------------------------------------------ the round trip
\* formatUnits, mask, unmask and parseUnits applied in turn to one value.
formatStep ==
    /\ rt.stage = "value"
    /\ rt' = [rt EXCEPT !.stage = "formatted", !.text = formatUnits(rt.value, rt.scale)]
    /\ UNCHANGED <<historyVars, inputVars, tx>>
maskStep ==
    /\ rt.stage = "formatted"
    /\ rt' = [rt EXCEPT !.stage = "masked", !.text = mask(rt.text, formattingOptions)]
    /\ UNCHANGED <<historyVars, inputVars, tx>>
unmaskStep ==
    /\ rt.stage = "masked"
    /\ rt' = [rt EXCEPT !.stage = "unmasked", !.text = unmask(rt.text, formattingOptions)]
    /\ UNCHANGED <<historyVars, inputVars, tx>>
parseStep ==
    /\ rt.stage = "unmasked"
    /\ rt' = [rt EXCEPT !.stage = "parsed", !.parsed = parseUnits(rt.text, rt.scale)]
    /\ UNCHANGED <<historyVars, inputVars, tx>>

RoundTripValues == (0 .. MaxRoundTrip) \cup {1000, 1005, 1234, 12345, 1234567}

InitRoundTrip ==
    /\ formattingOptions \in {PeriodOptions, CommaOptions}
    /\ \E v \in RoundTripValues, s \in 0 .. MaxScale :
          rt = [stage |-> "value", value |-> v, scale |-> s, text |-> <<>>,
                parsed |-> NoCall]
    \* (the history stack and the input field are not run)
    /\ hook = "lib"
    /\ state = 0
    /\ history = <<0>>
    /\ index = 0
    /\ call = [op |-> "none", newState |-> NoCall, setState |-> NoCall,
               state |-> 0, history |-> <<0>>, index |-> 0]
    /\ ops = <<>>
    /\ valueProp = Undefined
    /\ decimals = 0
    /\ input = [internalValue |-> <<>>, cursor |-> 0]
    /\ notified = NoNotification
    /\ pc = "idle"
    /\ renders = 0
    /\ event = [kind |-> "none", after |-> "none"]
    /\ tx = NoText

NextRoundTrip == formatStep \/ maskStep \/ unmaskStep \/ parseStep

\* ------------------------------------------------------ specifications
\* The history stack: one call per event; React re-renders the host before
\* the next event.
SpecHistory == InitHistory /\ [][NextHistory]_vars

\* The input field: mount, renders, user edits and prop changes.
SpecInput == InitInput /\ [][NextInput]_vars

\* The conversions on their own.
SpecRoundTrip == InitRoundTrip /\ [][NextRoundTrip]_vars

Spec == SpecHistory


\* ------------------------------------------------ the text functions
\* The characters of the raw texts: digits, both separators and a letter.
RawChars == {"0", "1", ".", ",", "a"}
\* Longer raw texts: the texts of the examples of the source's comments
\* (lines 44, 95, 101, 102) and of section 8, before and after a keystroke.
ExampleInputs ==
    {<<"1", ".", "2", "3", "9">>,
     <<"1", ".", "2", ".", "3">>,
     <<"1", "a", "2", ",", "3">>,
     <<"1", "0", "0", "0">>,
     <<"1", "2", "3", "4">>,
     <<"1", "0", "0", "0", "0">>,
     <<"1", ",", "0", "0", "0", "0">>,
     <<"1", ".", "0", "0", "0", "0">>,
     <<"1", "2", "3", "4", "5", "6", "7">>,
     <<"1", "2", "3", "4", "5", "6", "7", ".", "5">>,
     <<"1", "2", "3", "4", "5", "6", "7", ",", "5">>,
     <<"1", "0", ",", "0", "0", "0", "0", "0", "0">>,
     <<"1", ",", "0", "0", "0", ",", "0", "0", "0", "0", "0", "0">>,
     <<"1", ".", "0", "0", "0", ".", "0", "0", "0", "0", "0", "0">>}
RawInputs == UNION {[1 .. n -> RawChars] : n \in 0 .. MaxRaw} \cup ExampleInputs

\* e.nativeEvent.inputType of the change events of a text field.
InputTypes == {"insertText", "deleteContentBackward", "deleteContentForward"}

\* toNumericString(rawInputValue, decimals)
numericStep ==
    /\ tx.stage = "raw"
    /\ tx' = [tx EXCEPT !.stage = "numeric",
                        !.numericValue = toNumericString(tx.rawInputValue, tx.decimals,
                                                         formattingOptions)]
    /\ UNCHANGED <<historyVars, inputVars, rt>>
\* toNumericString of a text toNumericString returned.
numericAgainStep ==
    /\ tx.stage = "numeric"
    /\ tx' = [tx EXCEPT !.stage = "again",
                        !.again = toNumericString(tx.numericValue, tx.decimals,
                                                  formattingOptions)]
    /\ UNCHANGED <<historyVars, inputVars, rt>>
\* mask(numericValue)
maskNumericStep ==
    /\ tx.stage = "numeric"
    /\ tx' = [tx EXCEPT !.stage = "masked",
                        !.maskedValue = mask(tx.numericValue, formattingOptions)]
    /\ UNCHANGED <<historyVars, inputVars, rt>>
\* unmask(maskedValue)
unmaskMaskedStep ==
    /\ tx.stage = "masked"
    /\ tx' = [tx EXCEPT !.stage = "unmasked",
                        !.unmasked = unmask(tx.maskedValue, formattingOptions)]
    /\ UNCHANGED <<historyVars, inputVars, rt>>
\* adjustCursorPosition(rawInputValue, maskedValue, cursor)
adjustStep(cursor) ==
    /\ tx.stage = "masked"
    /\ tx' = [tx EXCEPT !.stage = "adjusted",
                        !.selectionStart = cursor,
                        !.cursor = adjustCursorPosition(tx.rawInputValue,
                                                        tx.maskedValue, cursor)]
    /\ UNCHANGED <<historyVars, inputVars, rt>>
\* handleMaskedInput(e, decimals) for a change event with this caret and
\* input type on the raw text.
handleStep(selectionStart, inputType) ==
    /\ tx.stage = "raw"
    /\ tx' = [tx EXCEPT !.stage = "handled",
                        !.selectionStart = selectionStart,
                        !.inputType = inputType,
                        !.handled = handleMaskedInput(tx.rawInputValue, selectionStart,
                                                      inputType, tx.decimals,
                                                      formattingOptions)]
    /\ UNCHANGED <<historyVars, inputVars, rt>>

\* Backspace with the caret at offset caret of the displayed maskedValue:
\* the text field deletes the character before the caret and delivers the
\* change event to handleMaskedInput.  selectionStart keeps the caret before
\* the keystroke.
backspaceStep(caret) ==
    LET e == DeleteContentBackward(tx.maskedValue, caret)
    IN  /\ tx.stage = "masked"
        /\ tx' = [tx EXCEPT !.stage = "deleted",
                            !.selectionStart = caret,
                            !.inputType = e.inputType,
                            !.handled = handleMaskedInput(e.rawInputValue,
                                                          e.selectionStart, e.inputType,
                                                          tx.decimals, formattingOptions)]
        /\ UNCHANGED <<historyVars, inputVars, rt>>

InitText ==
    /\ formattingOptions \in {PeriodOptions, CommaOptions}
    /\ \E raw \in RawInputs, d \in 0 .. MaxDigits :
          tx = [stage |-> "raw", rawInputValue |-> raw, decimals |-> d,
                numericValue |-> <<>>, again |-> <<>>, maskedValue |-> <<>>,
                unmasked |-> <<>>, selectionStart |-> 0, inputType |-> "none",
                cursor |-> 0,
                handled |-> [numericValue |-> <<>>, maskedValue |-> <<>>, cursor |-> 0]]
    \* (the history stack, the input field and the round trip are not run)
    /\ hook = "lib"
    /\ state = 0
    /\ history = <<0>>
    /\ index = 0
    /\ call = [op |-> "none", newState |-> NoCall, setState |-> NoCall,
               state |-> 0, history |-> <<0>>, index |-> 0]
    /\ ops = <<>>
    /\ valueProp = Undefined
    /\ decimals = 0
    /\ input = [internalValue |-> <<>>, cursor |-> 0]
    /\ notified = NoNotification
    /\ pc = "idle"
    /\ renders = 0
    /\ event = [kind |-> "none", after |-> "none"]
    /\ rt = [stage |-> "none", value |-> 0, scale |-> 0, text |-> <<>>, parsed |-> NoCall]

NextText ==
    \/ numericStep
    \/ numericAgainStep
    \/ maskNumericStep
    \/ unmaskMaskedStep
    \/ \E cursor \in 0 .. Len(tx.rawInputValue) : adjustStep(cursor)
    \/ \E selectionStart \in 0 .. Len(tx.rawInputValue), inputType \in InputTypes :
          handleStep(selectionStart, inputType)
    \/ \E caret \in 1 .. Len(tx.maskedValue) : backspaceStep(caret)

\* The text functions on their own.
SpecText == InitText /\ [][NextText]_vars

\* ------------------------------------------------ the demo host
\* BigIntInput of src/src/App.tsx: useInputStateWithHistory holds bigIntValue
\* (state, history, index of the copy of src/src/useStateWithHistory.ts) and
\* passes it to useBigIntInput as value; onChange(value) calls
\* setBigIntValue(value) whatever changedFromProps is.  The initial values
\* are small ones in place of 123456789000000000000000000n and 18.
DemoValues == {11}

\* The last shortcut call (undo or redo) with the history before it; any
\* other event of the host clears it.
NoShortcut ==
    [op |-> "none", newState |-> NoCall, setState |-> NoCall,
     state |-> 0, history |-> <<0>>, index |-> 0]
Shortcut(op, setStateArg) ==
    call' = [op |-> op, newState |-> NoCall, setState |-> setStateArg,
             state |-> state, history |-> history, index |-> index]

\* One run of BigIntInput: the render of useBigIntInput with value =
\* bigIntValue; its notification runs onChange(value) of App.tsx, lines
\* 25-27, and so set of useStateWithHistory.ts, lines 29-34.
demoRender ==
    /\ pc = "render"
    /\ IF NeedsReconcile(state, input.internalValue, decimals, formattingOptions)
         THEN LET newInternalValue == NewInternalValue(state, decimals, formattingOptions)
              IN  /\ renders < MaxRenders
                  /\ index + 2 <= MaxDemoHist
                  /\ input' = [internalValue |-> newInternalValue,
                               cursor |-> input.cursor]
                  /\ notified' = Notification(state, newInternalValue, TRUE)
                  /\ history' = SliceAndPush(history, index, state)
                  /\ index' = Len(history') - 1
                  /\ renders' = renders + 1
                  /\ pc' = "render"
                  /\ Did("reconcile")
         ELSE /\ UNCHANGED <<input, renders, history, index>>
              /\ notified' = NoNotification
              /\ pc' = "idle"
              /\ Did("render")
    /\ UNCHANGED <<hook, state, call, ops, formattingOptions, valueProp, decimals, rt, tx>>

\* A change event of the text field: onChange of useBigIntInput, then
\* onChange(value) of App.tsx and set.
demoOnChange(e) ==
    LET handled == handleMaskedInput(e.rawInputValue, e.selectionStart, e.inputType,
                                     decimals, formattingOptions)
        parsed == parseUnits(handled.numericValue, decimals)
    IN  /\ pc = "idle"
        /\ Len(e.rawInputValue) <= MaxDemoText
        /\ index + 2 <= MaxDemoHist
        /\ input' = [internalValue |-> handled.maskedValue, cursor |-> handled.cursor]
        /\ notified' = Notification(parsed, handled.maskedValue, FALSE)
        /\ history' = SliceAndPush(history, index, parsed)
        /\ index' = Len(history') - 1
        /\ state' = parsed
        /\ valueProp' = parsed
        /\ call' = NoShortcut
        /\ pc' = "render"
        /\ renders' = 0
        /\ Did("edit")
        /\ UNCHANGED <<hook, ops, formattingOptions, decimals, rt, tx>>

\* The "bigint" field of App.tsx, lines 42-44:
\* setBigIntValue(safeBigInt(...) || bigIntValue); 0n is falsy.
demoSetBigInt(v) ==
    LET newState == IF v = 0 THEN state ELSE v
    IN  /\ pc = "idle"
        /\ index + 2 <= MaxDemoHist
        /\ history' = SliceAndPush(history, index, newState)
        /\ index' = Len(history') - 1
        /\ state' = newState
        /\ valueProp' = newState
        /\ call' = NoShortcut
        /\ notified' = NoNotification
        /\ pc' = "render"
        /\ renders' = 0
        /\ Did("value")
        /\ UNCHANGED <<hook, ops, formattingOptions, decimals, input, rt, tx>>

\* The "decimals" field of App.tsx, line 56.
demoSetDecimals(d) ==
    /\ pc = "idle"
    /\ d # decimals
    /\ decimals' = d
    /\ call' = NoShortcut
    /\ notified' = NoNotification
    /\ pc' = "render"
    /\ renders' = 0
    /\ Did("decimals")
    /\ UNCHANGED <<hook, ops, state, history, index, formattingOptions, valueProp, input, rt, tx>>

\* Cmd+Z in the text field: undo of useStateWithHistory.ts, lines 36-41.
demoUndo ==
    /\ pc = "idle"
    /\ IF UndoReturns(index)
         THEN /\ UNCHANGED <<index, state, valueProp, pc, renders>>
              /\ Shortcut("undo", NoCall)
         ELSE /\ state' = UndoValue(history, index)
              /\ valueProp' = state'
              /\ index' = index - 1
              /\ Shortcut("undo", state')
              /\ pc' = "render"
              /\ renders' = 0
    /\ notified' = NoNotification
    /\ Did("undo")
    /\ UNCHANGED <<hook, ops, history, formattingOptions, decimals, input, rt, tx>>

\* Cmd+Shift+Z in the text field: redo of useStateWithHistory.ts, lines 43-48.
demoRedo ==
    LET value == RedoValue(history, index)
    IN  /\ pc = "idle"
        /\ IF RedoReturns(value)
             THEN /\ UNCHANGED <<index, state, valueProp, pc, renders>>
                  /\ Shortcut("redo", NoCall)
             ELSE /\ state' = value
                  /\ valueProp' = value
                  /\ index' = index + 1
                  /\ Shortcut("redo", value)
                  /\ pc' = "render"
                  /\ renders' = 0
        /\ notified' = NoNotification
        /\ Did("redo")
        /\ UNCHANGED <<hook, ops, history, formattingOptions, decimals, input, rt, tx>>

\* The first render of BigIntInput.
InitDemo ==
    /\ hook = "demo"
    /\ formattingOptions \in {PeriodOptions, CommaOptions}
    /\ state \in DemoValues
    /\ history = <<state>>
    /\ index = 0
    /\ call = NoShortcut
    /\ ops = <<>>
    /\ valueProp = state
    /\ decimals \in 0 .. MaxScale
    /\ input = InitialInput(valueProp, decimals, formattingOptions)
    /\ notified = NoNotification
    /\ pc = "render"
    /\ renders = 0
    /\ event = [kind |-> "mount", after |-> "none"]
    \* (the round trip and the text functions are not run)
    /\ rt = [stage |-> "none", value |-> 0, scale |-> 0, text |-> <<>>, parsed |-> NoCall]
    /\ tx = NoText

NextDemo ==
    \/ demoRender
    \/ \E e \in ChangeEvents(input.internalValue) : demoOnChange(e)
    \/ \E v \in DemoValues \cup {0} : demoSetBigInt(v)
    \/ \E d \in 0 .. MaxScale : demoSetDecimals(d)
    \/ demoUndo
    \/ demoRedo

\* The demo host: the text field wired to the history stack.
SpecDemo == InitDemo /\ [][NextDemo]_vars
\* ------------------------------------------------------------ claims
\* C1: entries is never empty and 0 <= index < entries.length, for any
\* initial value and after any sequence of set, undo and redo.
HistoryIndexInRange ==
    /\ Len(history) >= 1
    /\ index >= 0
    /\ index < Len(history)

\* C1 witness: a history of three entries with the pointer moved back to the
\* middle by redo after two undos.
HistoryIndexInRange_Witness ==
    /\ call.op = "redo"
    /\ Len(history) = 3
    /\ index = 1
    /\ call.index = 0

\* C2: a set whose resolved value differs from the current value leaves the
\* old entries[0..index] followed by the value, with index on the new last
\* position and the value current.
SetTruncatesAndAppends ==
    (call.op = "set" /\ call.newState # call.state) =>
        /\ history = Append(SubSeq(call.history, 1, call.index + 1), call.newState)
        /\ index = call.index + 1
        /\ index = Len(history) - 1
        /\ state = call.newState

\* C2 witness: a changing set made after an undo, so entries were discarded.
SetTruncatesAndAppends_Witness ==
    /\ call.op = "set"
    /\ call.newState # call.state
    /\ call.index < Len(call.history) - 1
    /\ Len(history) < Len(call.history) + 1

\* C3: history is linear.  Right after a set that changed the value redo has
\* nothing to read and returns; undo and redo only ever show values that
\* are in entries; and from [0] the calls set(1), set(2), undo(), set(3)
\* leave entries = [0,1,3], index = 2.
HistoryIsLinear ==
    /\ (call.op = "set" /\ call.setState # NoCall) =>
          /\ index = Len(history) - 1
          /\ RedoReturns(RedoValue(history, index))
    /\ (call.op \in {"undo", "redo"}) =>
          /\ history = call.history
          /\ state \in Range(call.history)
    /\ (ops = ScenarioOps /\ history[1] = 0) =>
          /\ history = <<0, 1, 3>>
          /\ index = 2
          /\ state = 3

\* C3 witness: the scenario has been run.
HistoryIsLinear_Witness ==
    /\ ops = ScenarioOps
    /\ history[1] = 0
    /\ 2 \notin Range(history)

\* C4: set with a value equal to the current one changes nothing and calls
\* no setState.
SetEqualIsNoOp ==
    (call.op = "set" /\ call.newState = call.state) =>
        /\ history = call.history
        /\ index = call.index
        /\ state = call.state
        /\ call.setState = NoCall

\* C5: undo returns at index 0; otherwise index goes down by one and the
\* current value is entries[index] at the new index.
UndoStepsBack ==
    (call.op = "undo") =>
        IF call.index = 0
        THEN /\ index = 0
             /\ state = call.state
             /\ history = call.history
             /\ call.setState = NoCall
        ELSE /\ index = call.index - 1
             /\ state = call.history[index + 1]
             /\ call.setState = state

\* C5 witness: an undo that moved to a different value.
UndoStepsBack_Witness ==
    /\ call.op = "undo"
    /\ call.index > 0
    /\ state # call.state

\* C6: redo does nothing exactly when index is the last position; otherwise
\* index goes up by one and the current value is entries[index], whatever
\* value of T is stored there.
RedoExactlyWhenNotLast ==
    (call.op = "redo") =>
        IF call.index = Len(call.history) - 1
        THEN /\ index = call.index
             /\ state = call.state
             /\ history = call.history
        ELSE /\ index = call.index + 1
             /\ state = call.history[index + 1]

\* C7: undo and redo leave entries as it is; only set changes it.
UndoRedoKeepEntries ==
    /\ (call.op \in {"undo", "redo"}) => history = call.history
    /\ (history # call.history) => call.op = "set"

\* C7 witness: an undo and a redo that each moved index over a history of at
\* least two entries.
UndoRedoKeepEntries_Witness ==
    /\ call.op = "redo"
    /\ index = call.index + 1
    /\ Len(history) >= 2
    /\ Len(ops) >= 3
    /\ ops[Len(ops) - 1][1] = "undo"

\* C8: formatUnits, mask, unmask, parseUnits in turn give back the value
\* they started from, for every value >= 0, every scale and either
\* FormattingOptions.
RoundTripLaw ==
    (rt.stage = "parsed") => rt.parsed = rt.value

\* The reconciliation guard of line 144, written out.
GuardHolds ==
    /\ valueProp # Undefined
    /\ valueProp # parseUnits(unmask(input.internalValue, formattingOptions), decimals)

\* C9: after a render that reconciled, the guard is false for the same value
\* and scale, so one change of the props reconciles and notifies at most
\* once.
ReconcileSettles ==
    /\ (event.kind = "reconcile") => ~GuardHolds
    /\ renders <= 1

\* C10: when the value prop already equals what the text parses to (as it
\* does when the host passes back the value an edit notified), the render
\* leaves internalValue and cursor as they are and notifies nobody.
EqualValueIsLeftAlone ==
    /\ []((event.kind = "edit" /\ valueProp = notified.value) => ~GuardHolds)
    /\ [][(pc = "render" /\ valueProp # Undefined /\ ~GuardHolds)
            => (input' = input /\ ~notified'.fired)]_vars

\* C10 witness: the render after an edit whose value the host passed back,
\* on a text that has a thousands separator in it.
EqualValueIsLeftAlone_Witness ==
    /\ event.kind = "render"
    /\ event.after = "edit"
    /\ valueProp # Undefined
    /\ ~GuardHolds
    /\ ~notified.fired
    /\ \E k \in DOMAIN input.internalValue :
           input.internalValue[k] = formattingOptions.thousandsSeparator

\* C11: a render whose guard holds replaces internalValue by
\* mask(formatUnits(value, decimals)), or by the empty text for zero, keeps
\* the cursor, and notifies (value, new internalValue, true); one change of
\* value or decimals is reconciled and notified exactly once.
ReconcileReplacesAndNotifiesOnce ==
    /\ [][(pc = "render" /\ GuardHolds) =>
            /\ input'.internalValue =
                   (IF valueProp = 0 THEN <<>>
                    ELSE mask(formatUnits(valueProp, decimals), formattingOptions))
            /\ input'.cursor = input.cursor
            /\ notified' = [fired |-> TRUE, value |-> valueProp,
                            rawValue |-> input'.internalValue,
                            changedFromProps |-> TRUE]]_vars
    /\ [](event.kind = "reconcile" => event.after # "reconcile")

\* C12: after every user edit the stored text is the masked text that was
\* notified, the notification is (value, maskedText, false), and value is
\* what the stored text parses to once unmasked.
EditNotifiesParsedText ==
    (event.kind = "edit") =>
        /\ notified.fired
        /\ ~notified.changedFromProps
        /\ notified.rawValue = input.internalValue
        /\ notified.value # ParseError
        /\ notified.value =
               parseUnits(unmask(input.internalValue, formattingOptions), decimals)
        /\ input.internalValue =
               mask(unmask(input.internalValue, formattingOptions), formattingOptions)

\* C12 witness: an edit that left a text with a thousands separator and a
\* fraction in it.
EditNotifiesParsedText_Witness ==
    /\ event.kind = "edit"
    /\ notified.fired
    /\ notified.value >= 1000
    /\ \E k \in DOMAIN input.internalValue :
           input.internalValue[k] = formattingOptions.thousandsSeparator
    /\ \E k \in DOMAIN input.internalValue :
           input.internalValue[k] = formattingOptions.decimalSeparator

\* C13: on a backward deletion where the re-masked text has a thousands
\* separator at the caret, the numeric string is the unmasked text without
\* the digit just before that separator (its offset is the caret minus the
\* thousands separators before the caret), the displayed text is its mask,
\* and the caret is caret - 1, or caret - 2 when the text became more than
\* one character shorter, never below 0; "1,000,000,000" becomes
\* "100,000,000" with the caret two to the left.
SeparatorDeleteRule ==
    LET caret == tx.selectionStart
        sep == formattingOptions.thousandsSeparator
        remasked == mask(toNumericString(tx.rawInputValue, tx.decimals,
                                         formattingOptions), formattingOptions)
        unmasked == unmask(remasked, formattingOptions)
        before == Cardinality({j \in 1 .. caret : remasked[j] = sep})
        k == caret - before
        shrunk == Len(remasked) - Len(tx.handled.maskedValue)
        moved == IF shrunk > 1 THEN caret - 2 ELSE caret - 1
    IN  (/\ tx.stage = "handled"
         /\ tx.inputType = "deleteContentBackward"
         /\ caret + 1 \in DOMAIN remasked
         /\ remasked[caret + 1] = sep) =>
            /\ k \in DOMAIN unmasked
            /\ unmasked[k] = remasked[caret]
            /\ unmasked[k] \in Digits
            /\ tx.handled.numericValue =
                   SubSeq(unmasked, 1, k - 1) \o SubSeq(unmasked, k + 1, Len(unmasked))
            /\ tx.handled.maskedValue = mask(tx.handled.numericValue, formattingOptions)
            /\ tx.handled.cursor = (IF moved > 0 THEN moved ELSE 0)
            /\ (/\ formattingOptions = PeriodOptions
                /\ remasked = <<"1", ",", "0", "0", "0", ",", "0", "0", "0", ",",
                                "0", "0", "0">>
                /\ caret = 9) =>
                   /\ tx.handled.maskedValue =
                          <<"1", "0", "0", ",", "0", "0", "0", ",", "0", "0", "0">>
                   /\ tx.handled.cursor = caret - 2

\* C13 witness: Backspace after the last comma of "1,000,000,000" has been
\* handled, and the text is "100,000,000" with the caret at 7.
SeparatorDeleteRule_Witness ==
    /\ tx.stage = "handled"
    /\ tx.inputType = "deleteContentBackward"
    /\ formattingOptions = PeriodOptions
    /\ tx.rawInputValue = <<"1", ",", "0", "0", "0", ",", "0", "0", "0", "0", "0", "0">>
    /\ tx.selectionStart = 9
    /\ tx.handled.maskedValue = <<"1", "0", "0", ",", "0", "0", "0", ",", "0", "0", "0">>
    /\ tx.handled.cursor = 7

\* C14: adjustCursorPosition(beforeText, afterText, caretBefore) is
\* caretBefore + 1 when afterText is longer, caretBefore - 1 when it is
\* shorter, caretBefore when the lengths are equal, and never below 0; the
\* digit typed at the end of "1,000" leaves the caret at 6 in "10,000".
CaretFollowsLength ==
    LET beforeText == tx.rawInputValue
        afterText == tx.maskedValue
        caretBefore == tx.selectionStart
        shift == IF Len(afterText) > Len(beforeText) THEN 1
                 ELSE IF Len(afterText) < Len(beforeText) THEN -1 ELSE 0
    IN  /\ (tx.stage = "adjusted") =>
              /\ tx.cursor >= 0
              /\ tx.cursor = (IF caretBefore + shift >= 0 THEN caretBefore + shift ELSE 0)
        /\ (/\ tx.stage = "handled"
            /\ tx.inputType = "insertText"
            /\ formattingOptions = PeriodOptions
            /\ tx.rawInputValue \in {<<"1", ",", "0", "0", "0", "0">>,
                                     <<"1", "0", "0", "0", "0">>}
            /\ tx.selectionStart = Len(tx.rawInputValue)) =>
               /\ tx.handled.maskedValue = <<"1", "0", ",", "0", "0", "0">>
               /\ tx.handled.cursor = 6

\* C14 witness: a caret at 0 that stayed at 0 although the text became
\* shorter.
CaretFollowsLength_Witness ==
    /\ tx.stage = "adjusted"
    /\ Len(tx.maskedValue) < Len(tx.rawInputValue)
    /\ tx.selectionStart = 0
    /\ tx.cursor = 0

\* C15: unmask(mask(n)) is n for every n that toNumericString returns, for
\* any raw text, any decimals and either FormattingOptions.
UnmaskInvertsMask ==
    (tx.stage = "unmasked") => tx.unmasked = tx.numericValue

\* C15 witness: a numeric string with a fraction whose mask has two
\* thousands separators, unmasked again.
UnmaskInvertsMask_Witness ==
    /\ tx.stage = "unmasked"
    /\ tx.unmasked = tx.numericValue
    /\ Cardinality({k \in DOMAIN tx.maskedValue :
                      tx.maskedValue[k] = formattingOptions.thousandsSeparator}) = 2
    /\ \E k \in DOMAIN tx.maskedValue :
           tx.maskedValue[k] = formattingOptions.decimalSeparator

\* C16: toNumericString applied to its own result gives that result again,
\* for every raw text and every decimals.
ToNumericStringIdempotent ==
    (tx.stage = "again") => tx.again = tx.numericValue

\* C17: toNumericString(raw, decimals) has only digits and at most one
\* decimal separator in it, and no thousands separator; its whole part is
\* the digits of raw before the first decimal separator, its fraction the
\* first decimals digits (cut off, not rounded) of the digits of raw after
\* the first decimal separator; toNumericString("1.239", 2) is "1.23".
NumericStringGrammar ==
    LET raw == tx.rawInputValue
        out == tx.numericValue
        dec == formattingOptions.decimalSeparator
        IsDigit(c) == c \in Digits
        first == IndexOf(raw, dec)
        wholeOfRaw == SelectSeq(IF first = 0 THEN raw ELSE SubSeq(raw, 1, first - 1),
                                IsDigit)
        fractionOfRaw == SelectSeq(IF first = 0 THEN <<>>
                                   ELSE SubSeq(raw, first + 1, Len(raw)), IsDigit)
        at == IndexOf(out, dec)
        wholeOfOut == IF at = 0 THEN out ELSE SubSeq(out, 1, at - 1)
        fractionOfOut == IF at = 0 THEN <<>> ELSE SubSeq(out, at + 1, Len(out))
    IN  (tx.stage = "numeric") =>
            /\ \A k \in DOMAIN out : out[k] \in Digits \cup {dec}
            /\ \A k \in DOMAIN out : out[k] # formattingOptions.thousandsSeparator
            /\ Cardinality({k \in DOMAIN out : out[k] = dec}) <= 1
            /\ wholeOfOut = wholeOfRaw
            /\ Len(fractionOfOut) <= tx.decimals
            /\ fractionOfOut =
                   SubSeq(fractionOfRaw, 1, Min(tx.decimals, Len(fractionOfRaw)))
            /\ (/\ raw = <<"1", ".", "2", "3", "9">>
                /\ tx.decimals = 2
                /\ formattingOptions = PeriodOptions) => out = <<"1", ".", "2", "3">>

\* C17 witness: toNumericString("1.239", 2) has returned "1.23".
NumericStringGrammar_Witness ==
    /\ tx.stage = "numeric"
    /\ formattingOptions = PeriodOptions
    /\ tx.rawInputValue = <<"1", ".", "2", "3", "9">>
    /\ tx.decimals = 2
    /\ tx.numericValue = <<"1", ".", "2", "3">>

\* C18: a raw text that ends with the thousands separator gives what the
\* same text gives with the decimal separator as its last character, for
\* every text x before that character, the empty x included.
TrailingThousandsIsDecimal ==
    LET raw == tx.rawInputValue
        x == SubSeq(raw, 1, Len(raw) - 1)
    IN  (/\ tx.stage = "numeric"
         /\ raw # <<>>
         /\ raw[Len(raw)] = formattingOptions.thousandsSeparator) =>
            tx.numericValue =
                toNumericString(x \o <<formattingOptions.decimalSeparator>>,
                                tx.decimals, formattingOptions)

\* C19: mask(n) puts the thousands separator into the whole part of n
\* between the groups of three digits counted from the last digit of the
\* whole part, and leaves the decimal separator and the fraction as they
\* are; under the period locale mask("1234567") is "1,234,567" and
\* mask("1234567.5") is "1,234,567.5".
MaskGroupsByThree ==
    LET n == tx.numericValue
        masked == tx.maskedValue
        dec == formattingOptions.decimalSeparator
        sep == formattingOptions.thousandsSeparator
        NotSep(c) == c # sep
        atN == IndexOf(n, dec)
        atM == IndexOf(masked, dec)
        wholeOfN == IF atN = 0 THEN n ELSE SubSeq(n, 1, atN - 1)
        wholeOfM == IF atM = 0 THEN masked ELSE SubSeq(masked, 1, atM - 1)
        restOfN == IF atN = 0 THEN <<>> ELSE SubSeq(n, atN, Len(n))
        restOfM == IF atM = 0 THEN <<>> ELSE SubSeq(masked, atM, Len(masked))
    IN  (tx.stage = "masked") =>
            /\ restOfM = restOfN
            /\ SelectSeq(wholeOfM, NotSep) = wholeOfN
            /\ \A k \in DOMAIN wholeOfM :
                   (wholeOfM[k] = sep) <=> ((Len(wholeOfM) - k + 1) % 4 = 0)
            /\ (formattingOptions = PeriodOptions) =>
                   /\ (n = <<"1", "2", "3", "4", "5", "6", "7">>) =>
                          masked = <<"1", ",", "2", "3", "4", ",", "5", "6", "7">>
                   /\ (n = <<"1", "2", "3", "4", "5", "6", "7", ".", "5">>) =>
                          masked = <<"1", ",", "2", "3", "4", ",", "5", "6", "7",
                                     ".", "5">>

\* C19 witness: mask("1234567.5") has returned "1,234,567.5" under the
\* period locale.
MaskGroupsByThree_Witness ==
    /\ tx.stage = "masked"
    /\ formattingOptions = PeriodOptions
    /\ tx.numericValue = <<"1", "2", "3", "4", "5", "6", "7", ".", "5">>
    /\ tx.maskedValue = <<"1", ",", "2", "3", "4", ",", "5", "6", "7", ".", "5">>

\* C20: with value 0n, at mount and after the render that follows any
\* change of the value prop to 0n, internalValue is the empty text.
ZeroDisplaysEmpty ==
    (/\ valueProp = 0
     /\ pc = "idle"
     /\ event.after \in {"mount", "value", "reconcile"}) =>
        input.internalValue = <<>>

\* C20, as amended: with value 0n internalValue is the empty text at mount,
\* and a render with value 0n makes it the empty text when the text does
\* not parse to 0 under the current decimals; a text that parses to 0 (a
\* typed "0") is left as it is.
ZeroDisplaysEmptyUnlessEqual ==
    /\ []((event.kind = "mount" /\ valueProp = 0) => input.internalValue = <<>>)
    /\ [][(pc = "render" /\ valueProp = 0) =>
            IF parseUnits(unmask(input.internalValue, formattingOptions), decimals) # 0
            THEN input'.internalValue = <<>>
            ELSE input' = input]_vars

\* C20 witness: the render that cleared a text because value became 0n (the
\* cursor still stands where it stood in that text).
ZeroDisplaysEmptyUnlessEqual_Witness ==
    /\ event.kind = "reconcile"
    /\ event.after = "value"
    /\ valueProp = 0
    /\ input.internalValue = <<>>
    /\ input.cursor > 0

\* C21: while value is undefined the text is empty at mount, no render
\* reconciles, internalValue and cursor change only in a user edit (a
\* change of decimals leaves them alone), and no notification with
\* changedFromProps = true is made.
UndefinedValueLeavesText ==
    /\ []((valueProp = Undefined) =>
             /\ event.kind # "reconcile"
             /\ ~(notified.fired /\ notified.changedFromProps)
             /\ (event.kind = "mount") => input.internalValue = <<>>)
    /\ [][(valueProp' = Undefined) => (input' = input \/ event'.kind = "edit")]_vars

\* C21 witness: the render after a change of decimals, with value undefined
\* and a text the user typed still in the field.
UndefinedValueLeavesText_Witness ==
    /\ valueProp = Undefined
    /\ event.kind = "render"
    /\ event.after = "decimals"
    /\ input.internalValue # <<>>
    /\ ~notified.fired

CursorInText ==
    /\ 0 <= input.cursor
    /\ input.cursor <= Len(input.internalValue)

\* C24: in every state unmask(internalValue) is digits with at most one
\* decimal separator and at most decimals digits after it, and masking it
\* again gives internalValue.
TextIsMaskedForScale ==
    LET dec == formattingOptions.decimalSeparator
        numeric == unmask(input.internalValue, formattingOptions)
        at == IndexOf(numeric, dec)
    IN  /\ \A k \in DOMAIN numeric : numeric[k] \in Digits \cup {dec}
        /\ Cardinality({k \in DOMAIN numeric : numeric[k] = dec}) <= 1
        /\ (at # 0) => Len(numeric) - at <= decimals
        /\ mask(numeric, formattingOptions) = input.internalValue

\* C25: Backspace on a displayed masked text, with a digit or a thousands
\* separator before the caret, leaves the digits of the numeric string
\* without exactly one of them, the digit deleted or the digit before the
\* deleted separator, and the other digits in their order.
BackspaceRemovesOneDigit ==
    LET caret == tx.selectionStart
        sep == formattingOptions.thousandsSeparator
        IsDigit(c) == c \in Digits
        deleted == tx.maskedValue[caret]
        \* offset in numericValue of the last character of maskedValue[1..caret]
        \* that is no thousands separator
        k == Cardinality({j \in 1 .. caret : tx.maskedValue[j] # sep})
        expected == SubSeq(tx.numericValue, 1, k - 1)
                    \o SubSeq(tx.numericValue, k + 1, Len(tx.numericValue))
    IN  (/\ tx.stage = "deleted"
         /\ deleted \in Digits \cup {sep}) =>
            SelectSeq(tx.handled.numericValue, IsDigit) = SelectSeq(expected, IsDigit)

\* C27: the value the history stack returns is entries[index], initially
\* and after any sequence of set, undo and redo, the calls that return
\* early included.
StateIsEntryAtIndex ==
    state = Nth(history, index)

\* C27 witness: an undo that returned early at index 0, after calls that
\* left at least two entries.
StateIsEntryAtIndex_Witness ==
    /\ call.op = "undo"
    /\ call.setState = NoCall
    /\ index = 0
    /\ Len(history) >= 2
    /\ state = history[1]

\* C26: in the demo host, after an undo that changed the value and until
\* the next event of the user, the renders that follow leave entries as
\* they were before the undo, and redo would read the value that was
\* current before the undo.
UndoSurvivesReconcile ==
    (/\ call.op = "undo"
     /\ call.setState # NoCall
     /\ call.setState # call.state) =>
        /\ history = call.history
        /\ index = call.index - 1
        /\ RedoValue(history, index) = call.state

====
